---- MODULE Spec2Model ----
(***************************************************************************)
(* Transcript segmentation and hierarchical templating of the              *)
(* english-learning-player: the structuring runs of batch_processor.py     *)
(* (save_to_database, reorganize_chapters_scenes and its templates), the   *)
(* request handlers of app.py that start them, and the stand-alone TOEIC   *)
(* restructuring tools, over the rows of dev.db.                           *)
(*                                                                         *)
(* Times are integers in ticks, TimeScale ticks to the second, so that the *)
(* code's divisions of a duration by 2, 3, 4 and 6 are exact.  Inputs are  *)
(* whole seconds.  The korean column is '' in every run and is left out.   *)
(***************************************************************************)
EXTENDS Integers, Sequences, FiniteSets, TLC

VARIABLES
    db,       \* the committed contents of dev.db
    threads,  \* the background threads started by the request handlers
    tool,     \* the stand-alone restructuring tool that ran last, and on which media
    runs,     \* number of accepted requests and tool runs so far
    db_manager,  \* database.py's DatabaseManager: its pool and the connections it opened
    callers,     \* the threads that use DatabaseManager.get_connection
    grouping     \* vad_filters.py's group_by_natural_breaks: the call in progress

vars == <<db, threads, tool, runs, db_manager, callers, grouping>>

-----------------------------------------------------------------------------
(* Bounds and units *)

TimeScale == 2 * 2 * 3      \* ticks per second: lcm of the chapter counts 2, 3, 4, 6
Sec(n) == n * TimeScale

MaxLen == 2                 \* enumerated sentence lists have at most MaxLen sentences
MaxRuns == 2                \* requests handled and tools run in one behaviour
MaxFault == 4               \* a storage fault hits one of the first MaxFault INSERTs of a call
MaxThreads == 2             \* background threads alive at once
MaxCallers == 2             \* threads that use get_connection at once
MaxTemporary == 1           \* temporary connections opened in one behaviour
MaxSentences == 7           \* sentences handed to group_by_natural_breaks

Gaps == {0, 3, 10, 2000}    \* seconds of silence before a sentence
SentenceLen == 2            \* seconds a sentence of an enumerated list lasts

MediaIds == {1, 2}
RunMedia == {1}             \* the media the requests are for; media 2 is a bystander
Threads == 1..MaxThreads

-----------------------------------------------------------------------------
(* Sequence helpers *)

Min(a, b) == IF a <= b THEN a ELSE b
Max(a, b) == IF a >= b THEN a ELSE b

Last(s) == s[Len(s)]

\* F applied to the value of v, which is computed once
With(v, F(_)) == CHOOSE y \in {F(x) : x \in {v}} : TRUE

\* Python's s[a:b] on 0-based indices, for 0 <= a
Slice(s, a, b) == IF Min(b, Len(s)) <= a THEN <<>> ELSE SubSeq(s, a + 1, Min(b, Len(s)))

RECURSIVE Flatten(_)
\* the concatenation of the sequences of ss
Flatten(ss) ==
    IF ss = <<>> THEN <<>> ELSE Flatten(SubSeq(ss, 1, Len(ss) - 1)) \o Last(ss)

\* the rows of S in increasing `order` (ORDER BY `order`), ties in rowid order
OrderBy(S) ==
    LET Before(x, y) == x.order < y.order \/ (x.order = y.order /\ x.id < y.id)
    IN With([x \in S |-> Cardinality({y \in S : Before(y, x)})], LAMBDA rank :
         [i \in 1..Cardinality(S) |-> CHOOSE x \in S : rank[x] = i - 1])

-----------------------------------------------------------------------------
(* Sentences: the dicts {'english', 'start_time', 'end_time', 'order'} *)

Sentence(text, st, et, ord) ==
    [english |-> text, start_time |-> st, end_time |-> et, order |-> ord]

RECURSIVE StartOf(_, _)
\* start second of sentence i of the list whose gaps are gs
StartOf(gs, i) == IF i = 1 THEN gs[1] ELSE StartOf(gs, i - 1) + SentenceLen + gs[i]

MkSentences(gs, first) ==
    [i \in 1..Len(gs) |->
        Sentence(IF i = 1 THEN first ELSE "Hello.",
                 Sec(StartOf(gs, i)), Sec(StartOf(gs, i) + SentenceLen), i)]

\* n back-to-back sentences of len seconds each
Regular(n, len) ==
    [i \in 1..n |-> Sentence("Hello.", Sec((i - 1) * len), Sec(i * len), i)]

GapSeqs == UNION {[1..n -> Gaps] : n \in 0..MaxLen}

\* lists with every gap, plain text; lists that open with a part marker; and two
\* lists long enough for a chapter to be cut into several scenes
PlainLists == {MkSentences(gs, "Hello.") : gs \in GapSeqs}
MarkedLists ==
    {MkSentences([i \in 1..n |-> 0], first) :
        n \in 1..MaxLen, first \in {"Part 1.", "Part 2. Directions."}}
LongLists == {Regular(45, 1), Regular(21, 100)}

\* back-to-back sentences with the given texts
Spoken(texts) ==
    [i \in 1..Len(texts) |->
        Sentence(texts[i], Sec((i - 1) * SentenceLen), Sec(i * SentenceLen), i)]

\* sentences after a part announcement that _find_directions_boundary takes for
\* its directions when no item follows: min(start_index + 10, len(sentences) - 1)
DirectionsSpan == 10

\* TOEIC listening transcripts: part announcements and numbered items
PartLists ==
    { Spoken(<<"Part 1.", "Number 1. Look.", "Hello.", "Number 2. Look.">>),
      Spoken(<<"Part 1.", "Part 2.", "Number 1. Look.", "Hello.">>),
      Spoken(<<"Hello.", "Part 1.", "Number 1. Look.">>),
      Spoken(<<"Part 1.">> \o [i \in 1..(DirectionsSpan + 1) |-> "Hello."]) }

\* lists whose pauses mix the chapter and the scene threshold of the manual template
GapLists == {MkSentences(<<0, 10, 3, 0>>, "Hello."), MkSentences(<<0, 3, 0, 10>>, "Hello.")}

SentenceLists == PlainLists \cup MarkedLists \cup LongLists \cup PartLists \cup GapLists

-----------------------------------------------------------------------------
(* dev.db: the Media, Chapter, Scene and Sentence tables, with the          *)
(* AUTOINCREMENT counters of sqlite_sequence                                *)

ChapterRow(id, mediaId, title, startTime, endTime, order) ==
    [id |-> id, mediaId |-> mediaId, title |-> title,
     startTime |-> startTime, endTime |-> endTime, order |-> order]

SceneRow(id, chapterId, title, startTime, endTime, order) ==
    [id |-> id, chapterId |-> chapterId, title |-> title,
     startTime |-> startTime, endTime |-> endTime, order |-> order]

SentenceRow(id, sceneId, s) ==
    [id |-> id, sceneId |-> sceneId, english |-> s.english,
     startTime |-> s.start_time, endTime |-> s.end_time, order |-> s.order]

\* SELECT id FROM Chapter WHERE mediaId = ?
ChapterIdsOf(d, m) == {c.id : c \in {c \in d.chapter : c.mediaId = m}}
\* SELECT id FROM Scene WHERE chapterId IN (...)
SceneIdsOf(d, m) == {s.id : s \in {s \in d.scene : s.chapterId \in ChapterIdsOf(d, m)}}

\* DELETE FROM Sentence WHERE sceneId IN (SELECT id FROM Scene WHERE chapterId IN (...))
DeleteSentences(d, m) ==
    [d EXCEPT !.sentence = {x \in @ : x.sceneId \notin SceneIdsOf(d, m)}]
\* DELETE FROM Scene WHERE chapterId IN (SELECT id FROM Chapter WHERE mediaId = ?)
DeleteScenes(d, m) ==
    [d EXCEPT !.scene = {x \in @ : x.chapterId \notin ChapterIdsOf(d, m)}]
\* DELETE FROM Chapter, with no WHERE clause
DeleteChaptersOfAll(d, m) == [d EXCEPT !.chapter = {}]

\* DELETE FROM Chapter WHERE mediaId = ?
DeleteChapters(d, m) ==
    [d EXCEPT !.chapter = {x \in @ : x.mediaId # m}]

\* a structuring operation that issued no DELETE at all
KeepHierarchy(d, m) == d

\* the three DELETE statements in the order every structuring operation issues them
DeleteHierarchy(d, m) == DeleteChapters(DeleteScenes(DeleteSentences(d, m), m), m)

\* UPDATE Media SET status = ? WHERE id = ?
SetStatus(d, m, status) == [d EXCEPT !.media[m].status = status]

-----------------------------------------------------------------------------
(* A template's INSERT statements, in the order it executes them.  A scene  *)
(* goes under the chapter inserted last; a sentence goes under the scene    *)
(* inserted last (ref = 0) or under the ref-th scene the call inserted.     *)

ChapterOp(title, st, et, ord) ==
    [t |-> "chapter", title |-> title, st |-> st, et |-> et, ord |-> ord]
SceneOp(title, st, et, ord) ==
    [t |-> "scene", title |-> title, st |-> st, et |-> et, ord |-> ord]
SentenceOp(s, ref) == [t |-> "sentence", s |-> s, ref |-> ref]

\* a cursor over database d: chapter_id and the scene ids of the call so far
Cursor(d) == [d |-> d, chapter_id |-> 0, scene_ids |-> <<>>]

\* The first n = count statements of ops = statements, executed on cursor x.  Every INSERT takes the
\* next AUTOINCREMENT id of its table, so the i-th statement's row id is the
\* table's counter plus the number of INSERTs into that table among ops[1..i];
\* chapter_id = cursor.lastrowid of the latest Chapter INSERT, scene_id likewise.
ExecuteFirst(cursor, m, statements, count) ==
  With(<<cursor, statements, count>>, LAMBDA bound :
    LET x == bound[1]
        ops == bound[2]
        n == bound[3]
        Count(i, t) == Cardinality({j \in 1..i : ops[j].t = t})
        Of(t) == {i \in 1..n : ops[i].t = t}
        chapter_id(i) == IF Count(i, "chapter") = 0 THEN x.chapter_id
                         ELSE x.d.seq.chapter + Count(i, "chapter")
        scene_ids(i) == x.scene_ids
                        \o [k \in 1..Count(i, "scene") |-> x.d.seq.scene + k]
        scene_id(i) == IF ops[i].ref = 0 THEN Last(scene_ids(i))
                       ELSE scene_ids(i)[ops[i].ref]
    IN [d |-> [x.d EXCEPT
                 !.chapter = @ \cup
                    {ChapterRow(x.d.seq.chapter + Count(i, "chapter"), m, ops[i].title,
                                ops[i].st, ops[i].et, ops[i].ord) : i \in Of("chapter")},
                 !.scene = @ \cup
                    {SceneRow(x.d.seq.scene + Count(i, "scene"), chapter_id(i),
                              ops[i].title, ops[i].st, ops[i].et, ops[i].ord) :
                        i \in Of("scene")},
                 !.sentence = @ \cup
                    {SentenceRow(x.d.seq.sentence + Count(i, "sentence"), scene_id(i),
                                 ops[i].s) : i \in Of("sentence")},
                 !.seq = [chapter |-> @.chapter + Count(n, "chapter"),
                          scene |-> @.scene + Count(n, "scene"),
                          sentence |-> @.sentence + Count(n, "sentence")]],
        chapter_id |-> chapter_id(n),
        scene_ids |-> scene_ids(n)])

\* ops executed on x where the fault-th INSERT raises (fault = 0: none does)
ExecuteAll(x, m, statements, fault) ==
    With(statements, LAMBDA ops :
      LET raised == fault \in 1..Len(ops)
      IN [x |-> ExecuteFirst(x, m, ops, IF raised THEN fault - 1 ELSE Len(ops)),
          raised |-> raised,
          left |-> IF fault > Len(ops) THEN fault - Len(ops) ELSE 0])

-----------------------------------------------------------------------------
(* Program constants of batch_processor.py, in seconds or sentences *)

DefaultDuration == 60       \* sentences[-1]['end_time'] if sentences else 60
GeneralSceneSize == 15
RcSceneSize == 10
RcPartCount == 3
ConversationSegment == 300
ConversationSceneSize == 8
AudiobookChapter == 900
AudiobookSceneSize == 20
MajorGap == 10
MinorGap == 3
AutoSplitOver == 20
AutoSceneSize == 10
LongAudio == 600
MediumAudio == 300

total_duration(sentences) ==
    IF sentences # <<>> THEN Last(sentences).end_time ELSE Sec(DefaultDuration)

\* [s for s in sentences if start_time <= s['start_time'] < end_time]
InRange(sentences, start_time, end_time) ==
    SelectSeq(sentences, LAMBDA s : start_time <= s.start_time /\ s.start_time < end_time)

\* len(range(0, length, scene_size))
chunk_count(length, scene_size) == (length + scene_size - 1) \div scene_size

\* for scene_idx in range(0, len(part), scene_size): one Scene and its Sentences
SceneChunks(part, scene_size, prefix) ==
    LET n == chunk_count(Len(part), scene_size)
    IN Flatten([j \in 1..n |->
          LET scene_sentences == Slice(part, (j - 1) * scene_size, j * scene_size)
          IN <<SceneOp(<<prefix, j>>, scene_sentences[1].start_time,
                       Last(scene_sentences).end_time, j)>>
             \o [k \in 1..Len(scene_sentences) |-> SentenceOp(scene_sentences[k], 0)]])

\* the loop shared by the ratio and fixed-duration templates: chapter i covers
\* [Start(i), End(i)) and holds the sentences that start in it, chunked into scenes
general_chapter_count(total) ==
    IF total > Sec(3600) THEN 6 ELSE IF total > Sec(1800) THEN 4 ELSE 2

apply_general_template(sentences) ==
    LET total == total_duration(sentences)
        chapter_count == general_chapter_count(total)
        chapter_duration == total \div chapter_count
    IN Flatten([c \in 1..chapter_count |->
          LET start_time == (c - 1) * chapter_duration
              end_time == c * chapter_duration
          IN <<ChapterOp(<<"Lecture", c>>, start_time, end_time, c)>>
             \o SceneChunks(InRange(sentences, start_time, end_time),
                            GeneralSceneSize, "Section")])

apply_toeic_rc_template(sentences) ==
    LET total == total_duration(sentences)
        part_duration == total \div RcPartCount
    IN Flatten([c \in 1..RcPartCount |->
          LET start_time == (c - 1) * part_duration
              end_time == c * part_duration
          IN <<ChapterOp(<<"Part", c + 4>>, start_time, end_time, c)>>
             \o SceneChunks(InRange(sentences, start_time, end_time),
                            RcSceneSize, "Section")])

apply_conversation_template(sentences) ==
    LET total == total_duration(sentences)
        segment_duration == Sec(ConversationSegment)
        segment_count == Max(1, total \div segment_duration)
    IN Flatten([c \in 1..segment_count |->
          LET start_time == (c - 1) * segment_duration
              end_time == Min(c * segment_duration, total)
          IN <<ChapterOp(<<"Segment", c>>, start_time, end_time, c)>>
             \o SceneChunks(InRange(sentences, start_time, end_time),
                            ConversationSceneSize, "Turn")])

apply_audiobook_template(sentences) ==
    LET total == total_duration(sentences)
        chapter_duration == Sec(AudiobookChapter)
        chapter_count == Max(1, total \div chapter_duration)
    IN Flatten([c \in 1..chapter_count |->
          LET start_time == (c - 1) * chapter_duration
              end_time == Min(c * chapter_duration, total)
          IN <<ChapterOp(<<"Chapter", c>>, start_time, end_time, c)>>
             \o SceneChunks(InRange(sentences, start_time, end_time),
                            AudiobookSceneSize, "Section")])

-----------------------------------------------------------------------------
(* The manual template: chapters and scenes from the gaps between sentences *)

\* gap = sentences[i]['start_time'] - sentences[i-1]['end_time'], i a 0-based index
Gap(sentences, i) == sentences[i + 1].start_time - sentences[i].end_time

Indices(sentences) == [i \in 1..(Len(sentences) - 1) |-> i]

\* the chapter breaks if a pause had to exceed the threshold
chapter_breaks_above(sentences) ==
    SelectSeq(Indices(sentences), LAMBDA i : Gap(sentences, i) > Sec(MajorGap))

chapter_breaks(sentences) ==
    SelectSeq(Indices(sentences), LAMBDA i : Gap(sentences, i) >= Sec(MajorGap))

scene_breaks(sentences) ==
    SelectSeq(Indices(sentences),
              LAMBDA i : /\ ~(Gap(sentences, i) >= Sec(MajorGap))
                         /\ Gap(sentences, i) >= Sec(MinorGap))

\* the slices of list between consecutive break indices, empty slices skipped
SplitAt(list, breaks) ==
    LET ends == breaks \o <<Len(list)>>
        all == [k \in 1..Len(ends) |->
                  [start |-> IF k = 1 THEN 0 ELSE ends[k - 1],
                   sentences |-> Slice(list, IF k = 1 THEN 0 ELSE ends[k - 1], ends[k]),
                   stop |-> ends[k]]]
    IN SelectSeq(all, LAMBDA g : g.sentences # <<>>)

chapter_groups(sentences) ==
    LET groups == SplitAt(sentences, chapter_breaks(sentences))
    IN [k \in 1..Len(groups) |->
          [sentences |-> groups[k].sentences,
           start |-> groups[k].sentences[1].start_time,
           end |-> Last(groups[k].sentences).end_time,
           scene_breaks |->
              LET inside == SelectSeq(scene_breaks(sentences),
                               LAMBDA sb : groups[k].start <= sb /\ sb < groups[k].stop)
              IN [j \in 1..Len(inside) |-> inside[j] - groups[k].start]]]

apply_manual_template(sentences) ==
    IF sentences = <<>> THEN <<>>
    ELSE LET groups == chapter_groups(sentences)
         IN Flatten([c \in 1..Len(groups) |->
               LET scene_groups == SplitAt(groups[c].sentences, groups[c].scene_breaks)
               IN <<ChapterOp(<<"Chapter", c>>, groups[c].start, groups[c].end, c)>>
                  \o Flatten([j \in 1..Len(scene_groups) |->
                        LET scene_sentences == scene_groups[j].sentences
                        IN <<SceneOp(<<"Scene", j>>, scene_sentences[1].start_time,
                                     Last(scene_sentences).end_time, j)>>
                           \o [k \in 1..Len(scene_sentences) |->
                                 SentenceOp(scene_sentences[k], 0)]])])

-----------------------------------------------------------------------------
(* The auto template: chapters from the silences of the audio file *)

\* an audio file as pydub sees it: whether AudioSegment.from_file loads it, whether
\* detect_silence succeeds on it, its length and the midpoints of its silences
Audio(loadable, detectable, length, mids) ==
    [loadable |-> loadable, detectable |-> detectable, length |-> length, mids |-> mids]

NoFile == Audio(FALSE, FALSE, 0, {})      \* the '' that save_sentences_to_db passes

\* length is the duration the transcription reports (info.duration), also for a
\* file that pydub cannot load
AudioFiles ==
    { Audio(TRUE, TRUE, Sec(4100), {}),
      Audio(TRUE, TRUE, Sec(4100), {Sec(1)}),
      Audio(TRUE, TRUE, Sec(4100), {Sec(100)}),
      Audio(TRUE, FALSE, Sec(700), {}),
      Audio(FALSE, FALSE, Sec(700), {}) }

\* sorted(list(set(...)))
Sorted(S) ==
    [i \in 1..Cardinality(S) |->
        CHOOSE x \in S : Cardinality({y \in S : y < x}) = i - 1]

detect_silence_breaks(filepath) ==
    IF filepath.loadable /\ filepath.detectable
    THEN Sorted({0} \cup filepath.mids \cup {filepath.length})
    ELSE IF filepath.loadable
         THEN LET duration == filepath.length
              IN IF duration > Sec(LongAudio)
                 THEN <<0, duration \div 4, duration \div 2, (duration * 3) \div 4, duration>>
                 ELSE IF duration > Sec(MediumAudio)
                      THEN <<0, duration \div 2, duration>>
                      ELSE <<0, duration>>
         ELSE <<0, Sec(DefaultDuration)>>

group_sentences_by_breaks(sentences, break_points) ==
    LET all == [i \in 1..(Len(break_points) - 1) |->
                 LET start_time == break_points[i]
                     end_time == break_points[i + 1]
                 IN [start_time |-> start_time,
                     end_time |-> end_time,
                     sentences |-> SelectSeq(sentences, LAMBDA s :
                         \/ (s.start_time >= start_time /\ s.end_time <= end_time)
                         \/ (s.start_time < end_time /\ s.end_time > start_time))]]
    IN SelectSeq(all, LAMBDA g : g.sentences # <<>>)

\* one Chapter and one Scene over [0, duration] holding every sentence
SingleChapter(title, sentences) ==
    LET duration == total_duration(sentences)
    IN <<ChapterOp(title, 0, duration, 1), SceneOp(title, 0, duration, 1)>>
       \o [k \in 1..Len(sentences) |-> SentenceOp(sentences[k], 0)]

\* a group that would be cut into scenes from AutoSplitOver sentences on
large_group_from(group) == Len(group.sentences) >= AutoSplitOver

\* if len(group['sentences']) > 20
large_group(group) == Len(group.sentences) > AutoSplitOver

apply_auto_template(filepath, sentences) ==
    LET break_points == detect_silence_breaks(filepath)
        groups == group_sentences_by_breaks(sentences, break_points)
    IN IF groups = <<>>
       THEN SingleChapter("All", sentences)
       ELSE Flatten([c \in 1..Len(groups) |->
              LET group == groups[c]
              IN <<ChapterOp(<<"Chapter", c>>, group.start_time, group.end_time, c)>>
                 \o IF large_group(group)
                    THEN SceneChunks(group.sentences, AutoSceneSize, "Scene")
                    ELSE <<SceneOp(<<"Scene", 1>>, group.start_time, group.end_time, 1)>>
                         \o [k \in 1..Len(group.sentences) |->
                               SentenceOp(group.sentences[k], 0)]])

-----------------------------------------------------------------------------
(* save_to_database: one Chapter over [0, duration], one Scene per sentence, *)
(* then the sentences by executemany, each under its own scene               *)

save_to_database_inserts(duration, sentences) ==
    <<ChapterOp("All", 0, duration, 1)>>
    \o [i \in 1..Len(sentences) |->
          SceneOp(<<"Sentence", i>>, sentences[i].start_time, sentences[i].end_time, i)]
    \o [i \in 1..Len(sentences) |-> SentenceOp(sentences[i], i)]

-----------------------------------------------------------------------------
(* toeic_smart_template.py: scenes from the markers in the sentence text.   *)
(* The regular expressions are tabulated over the texts of the model.       *)
(* Indices are 1-based here and 0-based in the source.                      *)

\* N when re.search(r'^Part\s+N[.\s]', text, re.IGNORECASE) matches, else 0
PartStart(text) ==
    CASE text = "Part 1." -> 1
      [] text = "Part 2." -> 2
      [] text = "Part 3." -> 3
      [] text = "Part 2. Directions." -> 2
      [] OTHER -> 0

\* N when re.search(r'^Number\s+(\d+)\.', text, re.IGNORECASE) matches, else 0
NumberItem(text) ==
    CASE text = "Number 1. Look." -> 1
      [] text = "Number 2. Look." -> 2
      [] OTHER -> 0

\* <<N, M>> when re.search(r'Questions?\s+(\d+)\s+through\s+(\d+)', text) matches
QuestionRange(text) ==
    CASE text = "Questions 32 through 34." -> <<32, 34>>
      [] text = "Questions 35 through 37." -> <<35, 37>>
      [] OTHER -> <<>>

by_number(part_num) == part_num \in {1, 2}

IsItem(part_num, text) ==
    IF by_number(part_num) THEN NumberItem(text) # 0 ELSE QuestionRange(text) # <<>>

Boundary(title, sentences, start_index, end_index) ==
    [title |-> title, start_index |-> start_index, end_index |-> end_index,
     start_time |-> sentences[start_index].start_time,
     end_time |-> sentences[end_index].end_time]

\* <<>> for None, else the one boundary
find_directions_boundary(sentences, part_num) ==
    LET starts == {i \in 1..Len(sentences) : PartStart(sentences[i].english) = part_num}
    IN IF starts = {} THEN <<>>
       ELSE LET start_index == CHOOSE i \in starts : \A j \in starts : i <= j
                items == {i \in (start_index + 1)..Len(sentences) :
                             IsItem(part_num, sentences[i].english)}
                found == IF items # {}
                         THEN (CHOOSE i \in items : \A j \in items : i <= j) - 1
                         ELSE Min(start_index + DirectionsSpan, Len(sentences))
                end_index == IF start_index >= found THEN start_index ELSE found
            IN <<Boundary(<<"Directions", part_num>>, sentences, start_index, end_index)>>

\* _find_number_boundaries and _find_question_range_boundaries: every item marker
\* opens a scene that runs to the sentence before the next marker, or to the end
find_item_boundaries(sentences, part_num) ==
    LET positions == SelectSeq([i \in 1..Len(sentences) |-> i],
                               LAMBDA i : IsItem(part_num, sentences[i].english))
    IN [k \in 1..Len(positions) |->
          Boundary(IF by_number(part_num)
                   THEN <<"Number", NumberItem(sentences[positions[k]].english)>>
                   ELSE <<"Questions">> \o QuestionRange(sentences[positions[k]].english),
                   sentences, positions[k],
                   IF k < Len(positions) THEN positions[k + 1] - 1 ELSE Len(sentences))]

find_scene_boundaries(sentences, part_num) ==
    IF part_num \notin 1..4 THEN <<>>
    ELSE LET directions == find_directions_boundary(sentences, part_num)
             main == find_item_boundaries(sentences, part_num)
         IN IF directions # <<>> /\ main # <<>>
            THEN directions
                 \o SelectSeq(main, LAMBDA b : b.start_index > directions[1].end_index)
            ELSE directions \o main

group_sentences_by_scenes(sentences, scene_boundaries) ==
    IF scene_boundaries = <<>>
    THEN <<[title |-> "All Sentences", sentences |-> sentences,
            start_time |-> IF sentences # <<>> THEN sentences[1].start_time ELSE 0,
            end_time |-> IF sentences # <<>> THEN Last(sentences).end_time ELSE 0]>>
    ELSE LET all == [k \in 1..Len(scene_boundaries) |->
                       [title |-> scene_boundaries[k].title,
                        sentences |-> SubSeq(sentences, scene_boundaries[k].start_index,
                                             scene_boundaries[k].end_index),
                        start_time |-> scene_boundaries[k].start_time,
                        end_time |-> scene_boundaries[k].end_time]]
         IN SelectSeq(all, LAMBDA sc : sc.sentences # <<>>)

\* SELECT ... FROM Sentence s JOIN Scene sc ON s.sceneId = sc.id
\* WHERE sc.chapterId = ? ORDER BY s.`order`, as the dicts the templates use
SentencesOfChapter(d, chapter_id) ==
    LET sceneIds == {sc.id : sc \in {sc \in d.scene : sc.chapterId = chapter_id}}
        rows == OrderBy({s \in d.sentence : s.sceneId \in sceneIds})
    IN [k \in 1..Len(rows) |->
          Sentence(rows[k].english, rows[k].startTime, rows[k].endTime, rows[k].order)]

\* SELECT ... FROM Chapter c WHERE c.mediaId = ? ORDER BY c.`order`
ChaptersOf(d, m) == OrderBy({c \in d.chapter : c.mediaId = m})

\* the body of the chapter loop: the chapter's scenes are deleted and rebuilt
RestructureChapter(d, m, chapter) ==
    With(SentencesOfChapter(d, chapter.id), LAMBDA sentences :
      With(group_sentences_by_scenes(sentences,
               find_scene_boundaries(sentences, chapter.order)), LAMBDA scenes :
        LET sceneIds == {sc.id : sc \in {sc \in d.scene : sc.chapterId = chapter.id}}
            deleted == [d EXCEPT !.sentence = {s \in @ : s.sceneId \notin sceneIds},
                                 !.scene = {sc \in @ : sc.chapterId # chapter.id}]
            ops == Flatten([k \in 1..Len(scenes) |->
                      <<SceneOp(scenes[k].title, scenes[k].start_time,
                                scenes[k].end_time, k)>>
                      \o [j \in 1..Len(scenes[k].sentences) |->
                            SentenceOp(scenes[k].sentences[j], 0)]])
        IN IF sentences = <<>> THEN d
           ELSE ExecuteFirst([Cursor(deleted) EXCEPT !.chapter_id = chapter.id],
                             m, ops, Len(ops)).d))

RECURSIVE RestructureChapters(_, _, _, _)
RestructureChapters(d, m, chapters, n) ==
    IF n = 0 THEN d
    ELSE RestructureChapter(RestructureChapters(d, m, chapters, n - 1), m, chapters[n])

\* the smart template as it would return were its connection never to write:
\* no lock is waited for and nothing is raised
SmartTemplateUnlocked(d, m, locked) == [raised |-> FALSE, d |-> d]

\* apply_toeic_smart_template on its own connection, which sees the committed
\* rows d.  locked: another connection has an open write transaction; the first
\* DELETE then waits for the lock until sqlite3's timeout and raises
\* OperationalError('database is locked').
apply_toeic_smart_template(d, m, locked) ==
    LET chapters == ChaptersOf(d, m)
        writes == \E k \in 1..Len(chapters) : SentencesOfChapter(d, chapters[k].id) # <<>>
    IN IF locked /\ writes
       THEN [raised |-> TRUE, d |-> d]
       ELSE [raised |-> FALSE, d |-> RestructureChapters(d, m, chapters, Len(chapters))]

-----------------------------------------------------------------------------
(* reorganize_chapters_scenes *)

Templates ==
    {"auto", "manual", "toeic_lc", "toeic_rc", "general", "conversation", "audiobook"}
UnknownTemplate == "lecture"        \* a name no branch of the dispatch tests for

\* the statements between the try and the except of apply_toeic_lc_template, then
\* its except branch.  committed: what a fresh connection sees; x: the caller's
\* cursor, whose transaction (the DELETEs already issued) holds the write lock.
\* The conn opened and committed here has executed nothing: its commit is empty.
apply_toeic_lc_template(committed, x, m, sentences, fault) ==
    With(ExecuteAll(x, m, SingleChapter("Temp", sentences), fault), LAMBDA temp :
      IF ~temp.raised /\ ~apply_toeic_smart_template(committed, m, TRUE).raised
      THEN [x |-> temp.x, faulted |-> FALSE, fallback |-> FALSE]
      ELSE With(ExecuteAll([temp.x EXCEPT !.d = DeleteHierarchy(@, m)], m,
                           apply_general_template(sentences), temp.left),
                LAMBDA general :
                  \* except: pass -- a raise inside the fallback is swallowed
                  [x |-> general.x, faulted |-> temp.raised \/ general.raised,
                   fallback |-> TRUE]))

\* the if/elif chain as it would be with an elif for 'auto' and the general
\* template in the else branch
TemplateInsertsGeneralElse(template, filepath, sentences) ==
    CASE template = "toeic_rc" -> apply_toeic_rc_template(sentences)
      [] template = "general" -> apply_general_template(sentences)
      [] template = "conversation" -> apply_conversation_template(sentences)
      [] template = "audiobook" -> apply_audiobook_template(sentences)
      [] template = "manual" -> apply_manual_template(sentences)
      [] template = "auto" -> apply_auto_template(filepath, sentences)
      [] OTHER -> apply_general_template(sentences)

\* the if/elif chain on the template name
TemplateInserts(template, filepath, sentences) ==
    CASE template = "toeic_rc" -> apply_toeic_rc_template(sentences)
      [] template = "general" -> apply_general_template(sentences)
      [] template = "conversation" -> apply_conversation_template(sentences)
      [] template = "audiobook" -> apply_audiobook_template(sentences)
      [] template = "manual" -> apply_manual_template(sentences)
      [] OTHER -> apply_auto_template(filepath, sentences)

\* the whole call on committed database d: what is committed afterwards, whether
\* an INSERT raised, whether the call rolled back, whether it raised to its caller
reorganize_chapters_scenes(d, m, filepath, sentences, template, fault) ==
    With(Cursor(DeleteHierarchy(d, m)), LAMBDA x :
      IF template = "toeic_lc"
      THEN With(apply_toeic_lc_template(d, x, m, sentences, fault), LAMBDA r :
             [d |-> r.x.d, faulted |-> r.faulted, rolled_back |-> FALSE,
              raised |-> FALSE])
      ELSE With(ExecuteAll(x, m, TemplateInserts(template, filepath, sentences), fault),
                LAMBDA r :
                  IF r.raised
                  THEN \* except Exception: conn.rollback()
                       [d |-> d, faulted |-> TRUE, rolled_back |-> TRUE,
                        raised |-> FALSE]
                  ELSE [d |-> r.x.d, faulted |-> FALSE, rolled_back |-> FALSE,
                        raised |-> FALSE]))

\* save_to_database on committed database d
save_to_database(d, m, duration, sentences, fault) ==
    LET updated == [d EXCEPT !.media[m].duration = duration,
                             !.media[m].status = "organizing"]
        r == ExecuteAll(Cursor(updated), m,
                        save_to_database_inserts(duration, sentences), fault)
    IN IF r.raised
       THEN [d |-> d, raised |-> TRUE]        \* conn.rollback(); raise e
       ELSE [d |-> r.x.d, raised |-> FALSE]

-----------------------------------------------------------------------------
(* toeic_structure.py and toeic_directions_parser.py: the stand-alone tools  *)
(* that rebuild a media's hierarchy from the sentences already stored        *)

\* SELECT ... FROM Sentence s JOIN Scene sc JOIN Chapter c WHERE c.mediaId = ?
\* ORDER BY s.`order`, as the dicts the tools use
SentencesOfMedia(d, m) ==
    LET sceneIds == {sc.id : sc \in {sc \in d.scene : sc.chapterId \in
                                        {c.id : c \in {c \in d.chapter : c.mediaId = m}}}}
        rows == OrderBy({s \in d.sentence : s.sceneId \in sceneIds})
    IN [k \in 1..Len(rows) |->
          Sentence(rows[k].english, rows[k].startTime, rows[k].endTime, rows[k].order)]

\* the four (start, end) index pairs; int(n * 0.05), int(n * 0.3) and int(n * 0.7)
\* are n*5 // 100, n*30 // 100 and n*70 // 100 for every n below 90
detect_toeic_parts(sentences) ==
    LET total_sentences == Len(sentences)
        part1_end == (total_sentences * 5) \div 100
        part2_end == (total_sentences * 30) \div 100
        part3_end == (total_sentences * 70) \div 100
    IN << <<0, Max(part1_end, 20)>>, <<Max(part1_end, 20), part2_end>>,
          <<part2_end, part3_end>>, <<part3_end, total_sentences>> >>

\* scene_size of create_part1_scenes .. create_part4_scenes, part_idx from 0
part_scene_size(part_idx, n) ==
    CASE part_idx = 0 -> 3
      [] part_idx = 1 -> Max(5, n \div 5)
      [] part_idx = 2 -> Max(3, n \div 13)
      [] OTHER -> Max(3, n \div 10)

\* the INSERTs of analyze_toeic_structure: a part with no sentences is skipped,
\* and a chapter's order is its part's number
analyze_toeic_structure_inserts(sentences) ==
    LET part_boundaries == detect_toeic_parts(sentences)
    IN Flatten([p \in 1..4 |->
          LET part_sentences == Slice(sentences, part_boundaries[p][1],
                                      part_boundaries[p][2])
          IN IF part_sentences = <<>> THEN <<>>
             ELSE <<ChapterOp(<<"Part", p>>, part_sentences[1].start_time,
                              Last(part_sentences).end_time, p)>>
                  \o SceneChunks(part_sentences,
                                 part_scene_size(p - 1, Len(part_sentences)), "Set")])

analyze_toeic_structure(d, m) ==
    With(SentencesOfMedia(d, m), LAMBDA sentences :
      With(analyze_toeic_structure_inserts(sentences), LAMBDA ops :
        With(Cursor(DeleteHierarchy(d, m)), LAMBDA x :
          ExecuteFirst(x, m, ops, Len(ops)).d)))

\* N when re.search(r'part\s+(\d+)', text.lower()) matches, else 0
PartMention(text) ==
    CASE text = "Part 1." -> 1
      [] text = "Part 2." -> 2
      [] text = "Part 3." -> 3
      [] text = "Part 2. Directions." -> 2
      [] OTHER -> 0

\* 'directions' in text.lower()
MentionsDirections(text) == text = "Part 2. Directions."

RECURSIVE current_part(_, _)
\* current_part after the part pattern was tried on sentence i (1-based); 0 is None
current_part(sentences, i) ==
    IF i = 0 THEN 0
    ELSE IF PartMention(sentences[i].english) \in 1..4
         THEN PartMention(sentences[i].english)
         ELSE current_part(sentences, i - 1)

\* every Directions sentence seen after a Part mention opens a part that runs to
\* the sentence before the next Directions sentence, or to the last sentence
find_toeic_part_boundaries(sentences) ==
    LET starts == SelectSeq([i \in 1..Len(sentences) |-> i],
                            LAMBDA i : /\ MentionsDirections(sentences[i].english)
                                       /\ current_part(sentences, i) # 0)
    IN [k \in 1..Len(starts) |->
          LET end_index == IF k < Len(starts) THEN starts[k + 1] - 1 ELSE Len(sentences)
          IN [part |-> current_part(sentences, starts[k]),
              start_index |-> starts[k], end_index |-> end_index,
              start_time |-> sentences[starts[k]].start_time,
              end_time |-> sentences[end_index].end_time]]

\* part_structures[part_num]['sentences_per_scene']
sentences_per_scene(part_num) ==
    CASE part_num = 1 -> 4
      [] part_num = 2 -> 8
      [] part_num = 3 -> 15
      [] OTHER -> 20

\* the INSERTs of apply_directions_based_structure: a chapter's order is its
\* part's number
apply_directions_based_structure_inserts(sentences) ==
    LET boundaries == find_toeic_part_boundaries(sentences)
    IN Flatten([k \in 1..Len(boundaries) |->
          LET boundary == boundaries[k]
              part_sentences == SubSeq(sentences, boundary.start_index,
                                       boundary.end_index)
          IN <<ChapterOp(<<"Part", boundary.part>>, boundary.start_time,
                         boundary.end_time, boundary.part)>>
             \o SceneChunks(part_sentences, sentences_per_scene(boundary.part),
                            "Group")])

apply_directions_based_structure(d, m) ==
    With(SentencesOfMedia(d, m), LAMBDA sentences :
      With(apply_directions_based_structure_inserts(sentences), LAMBDA ops :
        With(Cursor(DeleteHierarchy(d, m)), LAMBDA x :
          ExecuteFirst(x, m, ops, Len(ops)).d)))

-----------------------------------------------------------------------------
(* The persisted hierarchy of a media *)

ChapterRows(d, m) == {c \in d.chapter : c.mediaId = m}
SceneRows(d, m) == {s \in d.scene : s.chapterId \in ChapterIdsOf(d, m)}
SentenceRows(d, m) == {s \in d.sentence : s.sceneId \in SceneIdsOf(d, m)}

Rows(d, m) ==
    [chapter |-> ChapterRows(d, m), scene |-> SceneRows(d, m),
     sentence |-> SentenceRows(d, m)]

\* the hierarchy without its row ids and titles: counts, order values, time
\* bounds and the grouping of the sentences
Shape(d, m) ==
    [chapters |-> Cardinality(ChapterRows(d, m)),
     scenes |-> Cardinality(SceneRows(d, m)),
     sentences |-> Cardinality(SentenceRows(d, m)),
     tree |-> {<<c.order, c.startTime, c.endTime,
                 {<<sc.order, sc.startTime, sc.endTime,
                    {<<s.order, s.startTime, s.endTime, s.english>> :
                        s \in {s \in d.sentence : s.sceneId = sc.id}}>> :
                     sc \in {sc \in d.scene : sc.chapterId = c.id}}>> :
                c \in ChapterRows(d, m)}]

-----------------------------------------------------------------------------
(* State *)

EmptyDb ==
    [media |-> [m \in MediaIds |-> [status |-> "uploaded", duration |-> 0]],
     chapter |-> {}, scene |-> {}, sentence |-> {},
     seq |-> [chapter |-> 0, scene |-> 0, sentence |-> 0]]

\* media 2 was structured earlier from an uploaded one-sentence transcript
BystanderSentences == MkSentences(<<3>>, "Hello.")
InitialDb ==
    LET saved == save_to_database(EmptyDb, 2, total_duration(BystanderSentences),
                                  BystanderSentences, 0).d
        built == reorganize_chapters_scenes(saved, 2, NoFile, BystanderSentences,
                                            "manual", 0).d
    IN SetStatus(built, 2, "completed")

NoShape == [chapters |-> 0, scenes |-> 0, sentences |-> 0, tree |-> {}]
NoRows == [chapter |-> {}, scene |-> {}, sentence |-> {}]

IdleThread ==
    [pc |-> "idle", kind |-> "none", media |-> 0, template |-> "none",
     filepath |-> NoFile, sentences |-> <<>>, duration |-> 0,
     pre |-> NoRows,          \* the media's rows when the request was accepted
     before |-> NoRows,       \* the media's rows when reorganize_chapters_scenes was called
     save_raised |-> FALSE,   \* save_to_database raised
     faulted |-> FALSE,       \* an INSERT raised inside reorganize_chapters_scenes
     rolled_back |-> FALSE,   \* reorganize_chapters_scenes rolled its transaction back
     raised |-> FALSE,        \* reorganize_chapters_scenes raised to its caller
     clean |-> FALSE,         \* the run went through with no raise anywhere
     first |-> NoShape,       \* the hierarchy the previous run of this request left
     repeat |-> FALSE,        \* this run repeats the previous run's request
     busy |-> FALSE]          \* a statement of the run raised 'database is locked'

\* before: the media's rows when the tool was started
NoTool == [op |-> "none", media |-> 0, before |-> NoRows]

-----------------------------------------------------------------------------
(* State of database.py's DatabaseManager and of a call of vad_filters.py's  *)
(* group_by_natural_breaks                                                  *)

pool_size == 1              \* DatabaseManager(pool_size=...)
Callers == 1..MaxCallers
Connections == 1..(pool_size + MaxTemporary)

\* failed: the with-block that holds the connection raised and no rollback
\* has followed; rolled_back: a rollback after a raise has happened on it
Unopened ==
    [state |-> "unopened", in_transaction |-> FALSE, failed |-> FALSE,
     rolled_back |-> FALSE]
Connected == [Unopened EXCEPT !.state = "open"]

\* __init__ and _initialize_pool: pool_size connections, all in the queue
InitialManager ==
    [pool |-> [i \in 1..pool_size |-> i],
     conns |-> [k \in Connections |-> IF k <= pool_size THEN Connected ELSE Unopened],
     created |-> 0]

OutsideBlock == [pc |-> "outside", conn |-> 0]

NotGrouping ==
    [pc |-> "none", sentences |-> <<>>, break_points |-> {}, at |-> 0,
     groups |-> <<>>, current_group |-> <<>>]

Workers ==
    /\ db = InitialDb
    /\ threads = [t \in Threads |-> IdleThread]
    /\ tool = NoTool
    /\ runs = 0

Init ==
    /\ Workers
    /\ db_manager = InitialManager
    /\ callers = [c \in Callers |-> OutsideBlock]
    /\ grouping = NotGrouping

Active(t) ==
    threads[t].pc \in {"transcribe", "save", "reorganize", "organizing", "complete"}
NoneActive == \A t \in Threads : ~Active(t)

\* the thread a handler's threading.Thread(...) becomes: the lowest one not running
Free(t) == ~Active(t) /\ \A u \in Threads : u < t => Active(u)

\* a request is repeated once its run went through, and sends what it sent before
Resubmits(t, kind, m, template, filepath) ==
    threads[t].pc = "done" =>
        /\ tool = NoTool
        /\ threads[t].clean
        /\ threads[t].kind = kind /\ threads[t].media = m
        /\ threads[t].template = template /\ threads[t].filepath = filepath

Start(t, kind, m, template, filepath, sentences, pc) ==
    [IdleThread EXCEPT
        !.pc = pc, !.kind = kind, !.media = m, !.template = template,
        !.filepath = filepath, !.sentences = sentences,
        !.pre = Rows(db, m),
        !.repeat = threads[t].pc = "done",
        !.first = IF threads[t].pc = "done" THEN Shape(db, m) ELSE NoShape]

-----------------------------------------------------------------------------
(* app.py: the request handlers and the threads they start *)

\* a status that would turn no request away
never_processing(status) == FALSE

\* media[1] == 'processing'
being_processed(status) == status = "processing"

\* POST /api/media/<id>/upload-sentences, accepted
upload_sentences(t, m, sentences, template) ==
    /\ runs < MaxRuns
    /\ Free(t)
    /\ ~being_processed(db.media[m].status)
    /\ Resubmits(t, "upload", m, template, NoFile)
    /\ threads[t].pc = "done" => threads[t].sentences = sentences
    /\ db' = SetStatus(db, m, "processing")
    /\ threads' = [threads EXCEPT ![t] =
                       Start(t, "upload", m, template, NoFile, sentences, "save")]
    /\ runs' = runs + 1
    /\ UNCHANGED <<tool, db_manager, callers, grouping>>

\* POST /api/media/<id>/process-whisper, accepted
process_whisper(t, m, filepath, template, force_restart) ==
    /\ runs < MaxRuns
    /\ Free(t)
    /\ ~(being_processed(db.media[m].status) /\ ~force_restart)
    /\ Resubmits(t, "whisper", m, template, filepath)
    /\ db' = SetStatus(db, m, "processing")
    /\ threads' = [threads EXCEPT ![t] =
                       Start(t, "whisper", m, template, filepath,
                             threads[t].sentences, "transcribe")]
    /\ runs' = runs + 1
    /\ UNCHANGED <<tool, db_manager, callers, grouping>>

\* either request for a media that is being processed (process-whisper without
\* force_restart): the handler closes its connection and returns HTTP 400
request_rejected(m) ==
    /\ runs < MaxRuns
    /\ being_processed(db.media[m].status)
    /\ runs' = runs + 1
    /\ UNCHANGED <<db, threads, tool, db_manager, callers, grouping>>

\* process_audio_batch up to its call of save_to_database: the model transcribes
\* the file into sentences and the status goes through 'transcribing' and
\* 'translating' to 'saving'.  The same file transcribes to the same sentences.
transcribe(t, sentences) ==
    /\ threads[t].pc = "transcribe"
    /\ threads[t].repeat => sentences = threads[t].sentences
    /\ db' = SetStatus(db, threads[t].media, "saving")
    /\ threads' = [threads EXCEPT ![t].pc = "save", ![t].sentences = sentences]
    /\ UNCHANGED <<tool, runs, db_manager, callers, grouping>>

\* the model cannot be loaded or the transcription raises: process_audio_batch
\* catches it and returns success False; background_whisper logs the result
transcribe_fails(t) ==
    /\ threads[t].pc = "transcribe"
    /\ threads' = [threads EXCEPT ![t].pc = "done"]
    /\ UNCHANGED <<db, tool, runs, db_manager, callers, grouping>>

\* the duration save_to_database is given: info.duration of the transcription,
\* or the end of the last uploaded sentence
DurationOf(th) ==
    IF th.kind = "whisper" THEN th.filepath.length ELSE total_duration(th.sentences)

save(t, fault) ==
    /\ threads[t].pc = "save"
    /\ LET th == threads[t]
           r == save_to_database(db, th.media, DurationOf(th), th.sentences, fault)
       IN IF r.raised
          THEN \* process_audio_batch returns success False; background_save
               \* sets the status to 'error'
               /\ db' = IF th.kind = "upload" THEN SetStatus(r.d, th.media, "error")
                        ELSE r.d
               /\ threads' = [threads EXCEPT ![t].pc = "done", ![t].save_raised = TRUE,
                                             ![t].duration = DurationOf(th)]
          ELSE /\ db' = r.d
               /\ threads' = [threads EXCEPT ![t].pc = "reorganize",
                                             ![t].duration = DurationOf(th)]
    /\ UNCHANGED <<tool, runs, db_manager, callers, grouping>>

reorganize(t, fault) ==
    /\ threads[t].pc = "reorganize"
    /\ LET th == threads[t]
           r == reorganize_chapters_scenes(db, th.media, th.filepath, th.sentences,
                                           th.template, fault)
       IN /\ db' = r.d
          /\ threads' = [threads EXCEPT ![t].pc = "complete",
                                        ![t].before = Rows(db, th.media),
                                        ![t].faulted = r.faulted,
                                        ![t].rolled_back = r.rolled_back,
                                        ![t].raised = r.raised]
    /\ UNCHANGED <<tool, runs, db_manager, callers, grouping>>

\* UPDATE Media SET status = 'completed': the last statement of the run
complete(t) ==
    /\ threads[t].pc = "complete"
    /\ db' = SetStatus(db, threads[t].media, "completed")
    /\ threads' = [threads EXCEPT ![t].pc = "done",
                                  ![t].clean = ~threads[t].faulted]
    /\ UNCHANGED <<tool, runs, db_manager, callers, grouping>>

\* python toeic_structure.py, on a media whose run has completed
toeic_structure_main(m) ==
    /\ runs < MaxRuns
    /\ db.media[m].status = "completed"
    /\ db' = analyze_toeic_structure(db, m)
    /\ tool' = [op |-> "analyze", media |-> m, before |-> Rows(db, m)]
    /\ runs' = runs + 1
    /\ UNCHANGED <<threads, db_manager, callers, grouping>>

\* python toeic_directions_parser.py, on a media whose run has completed
toeic_directions_parser_main(m) ==
    /\ runs < MaxRuns
    /\ db.media[m].status = "completed"
    /\ db' = apply_directions_based_structure(db, m)
    /\ tool' = [op |-> "directions", media |-> m, before |-> Rows(db, m)]
    /\ runs' = runs + 1
    /\ UNCHANGED <<threads, db_manager, callers, grouping>>

\* python toeic_smart_template.py, on a media whose run has completed: no other
\* connection holds the write lock
toeic_smart_template_main(m) ==
    /\ runs < MaxRuns
    /\ db.media[m].status = "completed"
    /\ db' = apply_toeic_smart_template(db, m, FALSE).d
    /\ tool' = [op |-> "smart", media |-> m, before |-> Rows(db, m)]
    /\ runs' = runs + 1
    /\ UNCHANGED <<threads, db_manager, callers, grouping>>

Faults == 0..MaxFault

AnyTemplate == Templates \cup {UnknownTemplate}
\* process-whisper requests name the templates that read the audio file, and one
\* that does not
WhisperTemplates == {"auto", UnknownTemplate, "general"}

\* one request at a time: a request is sent when no thread is running
Next ==
    \/ /\ NoneActive
       /\ \E t \in Threads, m \in RunMedia, sentences \in SentenceLists,
             template \in AnyTemplate :
             upload_sentences(t, m, sentences, template)
    \/ /\ NoneActive
       /\ \E t \in Threads, m \in RunMedia, filepath \in AudioFiles,
             template \in WhisperTemplates :
             process_whisper(t, m, filepath, template, FALSE)
    \/ \E t \in Threads, sentences \in SentenceLists : transcribe(t, sentences)
    \/ \E t \in Threads : transcribe_fails(t)
    \/ \E t \in Threads, fault \in Faults : save(t, fault)
    \/ \E t \in Threads, fault \in Faults : reorganize(t, fault)
    \/ \E t \in Threads : complete(t)
    \/ \E m \in RunMedia : NoneActive /\ toeic_structure_main(m)
    \/ \E m \in RunMedia : NoneActive /\ toeic_directions_parser_main(m)
    \/ \E m \in RunMedia : NoneActive /\ toeic_smart_template_main(m)

Spec == Init /\ [][Next]_vars

-----------------------------------------------------------------------------
(* Requests that arrive while background threads are running *)

ConcLists == {MkSentences(<<>>, "Hello."), MkSentences(<<0>>, "Hello.")}
ConcTemplates == {"manual", "general"}
ConcFiles == {Audio(TRUE, TRUE, Sec(4100), {})}

NextConc ==
    \/ \E t \in Threads, m \in RunMedia, sentences \in ConcLists,
          template \in ConcTemplates :
          upload_sentences(t, m, sentences, template)
    \/ \E t \in Threads, m \in RunMedia, filepath \in ConcFiles,
          template \in ConcTemplates :
          process_whisper(t, m, filepath, template, FALSE)
    \/ \E t \in Threads, sentences \in ConcLists : transcribe(t, sentences)
    \/ \E t \in Threads : transcribe_fails(t)
    \/ \E t \in Threads, fault \in Faults : save(t, fault)
    \/ \E t \in Threads, fault \in Faults : reorganize(t, fault)
    \/ \E t \in Threads : complete(t)

SpecConc == Init /\ [][NextConc]_vars

\* the same requests, and the requests the handlers turn away, with no storage fault
BusyTemplates == {"manual"}

NextBusy ==
    \/ \E t \in Threads, m \in RunMedia, sentences \in ConcLists,
          template \in BusyTemplates :
          upload_sentences(t, m, sentences, template)
    \/ \E t \in Threads, m \in RunMedia, filepath \in ConcFiles,
          template \in BusyTemplates :
          process_whisper(t, m, filepath, template, FALSE)
    \/ \E m \in RunMedia : request_rejected(m)
    \/ \E t \in Threads, sentences \in ConcLists : transcribe(t, sentences)
    \/ \E t \in Threads : transcribe_fails(t)
    \/ \E t \in Threads : save(t, 0)
    \/ \E t \in Threads : reorganize(t, 0)
    \/ \E t \in Threads : complete(t)

SpecBusy == Init /\ [][NextBusy]_vars

-----------------------------------------------------------------------------
(* Runs for different media side by side.  dev.db has one write lock: the   *)
(* connection of reorganize_chapters_scenes takes it with its first DELETE  *)
(* and holds it until its commit or rollback.  A statement that writes      *)
(* while another connection holds the lock waits for it; sqlite3.connect's  *)
(* default timeout is 5 s, after which the statement raises                 *)
(* OperationalError('database is locked').                                  *)

ParLists == {MkSentences(<<>>, "Hello."), MkSentences(<<0>>, "Hello.")}
ParTemplates == {"general", "toeic_lc"}

\* the thread whose reorganize_chapters_scenes transaction is open
Holds(t) == threads[t].pc = "organizing"
LockFree == \A u \in Threads : ~Holds(u)

\* the transaction of thread u stays open longer than the timeout: under
\* toeic_lc the smart template's own connection waits the 5 s out before the
\* fallback runs; under auto the audio file is analysed inside the transaction
SlowHolder(u) ==
    /\ Holds(u)
    /\ \/ threads[u].template = "toeic_lc" /\ threads[u].sentences # <<>>
       \/ threads[u].template \notin (Templates \ {"auto"}) /\ threads[u].filepath.loadable

\* an upload-sentences request for a media no run was started for
par_upload_sentences(t, m, sentences, template) ==
    /\ \A u \in Threads : threads[u].media # m
    /\ upload_sentences(t, m, sentences, template)

par_save(t) == LockFree /\ save(t, 0)

\* the three DELETEs of reorganize_chapters_scenes: the write lock is taken
begin_reorganize(t) ==
    /\ threads[t].pc = "reorganize"
    /\ LockFree
    /\ threads' = [threads EXCEPT ![t].pc = "organizing"]
    /\ UNCHANGED <<db, tool, runs, db_manager, callers, grouping>>

\* the template and conn.commit(): the lock is released
commit_reorganize(t) ==
    /\ threads[t].pc = "organizing"
    /\ LET th == threads[t]
           r == reorganize_chapters_scenes(db, th.media, th.filepath, th.sentences,
                                           th.template, 0)
       IN /\ db' = r.d
          /\ threads' = [threads EXCEPT ![t].pc = "complete",
                                        ![t].before = Rows(db, th.media),
                                        ![t].faulted = r.faulted,
                                        ![t].rolled_back = r.rolled_back,
                                        ![t].raised = r.raised]
    /\ UNCHANGED <<tool, runs, db_manager, callers, grouping>>

par_complete(t) == LockFree /\ complete(t)

\* the next writing statement of thread t waits for a slow holder and raises
\* 'database is locked'.  In save_to_database and in the final UPDATE the error
\* reaches background_save, whose UPDATE ... status = 'error' goes through
\* (recorded) or is locked out as well; in reorganize_chapters_scenes it is caught
\* and the run goes on.
locked_out(t, recorded) ==
    /\ \E u \in Threads : u # t /\ SlowHolder(u)
    /\ threads[t].pc \in {"save", "reorganize", "complete"}
    /\ IF threads[t].pc = "reorganize"
       THEN /\ recorded
            /\ db' = db
            /\ threads' = [threads EXCEPT ![t].pc = "complete", ![t].busy = TRUE,
                                          ![t].before = Rows(db, threads[t].media),
                                          ![t].rolled_back = TRUE]
       ELSE /\ db' = IF recorded THEN SetStatus(db, threads[t].media, "error") ELSE db
            /\ threads' = [threads EXCEPT ![t].pc = "done", ![t].busy = TRUE,
                                          ![t].save_raised = threads[t].pc = "save"]
    /\ UNCHANGED <<tool, runs, db_manager, callers, grouping>>

NextPar ==
    \/ \E t \in Threads, m \in MediaIds, sentences \in ParLists,
          template \in ParTemplates :
          par_upload_sentences(t, m, sentences, template)
    \/ \E t \in Threads : par_save(t)
    \/ \E t \in Threads : begin_reorganize(t)
    \/ \E t \in Threads : commit_reorganize(t)
    \/ \E t \in Threads : par_complete(t)
    \/ \E t \in Threads, recorded \in BOOLEAN : locked_out(t, recorded)

SpecPar == Init /\ [][NextPar]_vars

-----------------------------------------------------------------------------
(* Uploads of transcripts with malformed spans.  upload_sentences takes the *)
(* 'sentences' of the request body as they come: JSON numbers of any order  *)

\* a sentence that ends when it starts, one that ends before it starts, a
\* transcript of duration 0, and a well-formed sentence followed by an inverted one
MalformedLists ==
    { <<Sentence("Hello.", Sec(2), Sec(2), 1)>>,
      <<Sentence("Hello.", Sec(4), Sec(2), 1)>>,
      <<Sentence("Hello.", 0, 0, 1)>>,
      <<Sentence("Hello.", 0, Sec(2), 1), Sentence("Hello.", Sec(4), Sec(3), 2)>> }

UploadLists == MalformedLists \cup {MkSentences(<<0, 3>>, "Hello.")}

NextUpload ==
    \/ /\ NoneActive
       /\ \E t \in Threads, m \in RunMedia, sentences \in UploadLists,
             template \in AnyTemplate :
             upload_sentences(t, m, sentences, template)
    \/ \E t \in Threads : save(t, 0)
    \/ \E t \in Threads : reorganize(t, 0)
    \/ \E t \in Threads : complete(t)

SpecUpload == Init /\ [][NextUpload]_vars

-----------------------------------------------------------------------------
(* DatabaseManager.get_connection: the pool is a queue.Queue(maxsize =      *)
(* pool_size), whose get and put_nowait are atomic; the steps of the        *)
(* context manager and of the with-block interleave freely between callers. *)

Conn(c) == callers[c].conn
SetConn(k, field, value) ==
    [db_manager EXCEPT !.conns[k] = [@ EXCEPT ![field] = value]]

\* self._pool.get(timeout=5.0) finds a connection in the queue
leave_in_queue(pool) == pool
take_from_queue(pool) == Tail(pool)
_get_connection_from_pool(c) ==
    /\ callers[c].pc = "outside"
    /\ db_manager.pool # <<>>
    /\ callers' = [callers EXCEPT ![c] = [pc |-> "block", conn |-> Head(db_manager.pool)]]
    /\ db_manager' = [db_manager EXCEPT !.pool = take_from_queue(@)]
    /\ UNCHANGED <<db, threads, tool, runs, grouping>>

\* the queue stayed empty for the 5 seconds: except Empty opens a temporary connection
pool_exhausted(c) ==
    /\ callers[c].pc = "outside"
    /\ db_manager.pool = <<>>
    /\ db_manager.created < MaxTemporary
    /\ LET k == pool_size + db_manager.created + 1
       IN /\ callers' = [callers EXCEPT ![c] = [pc |-> "block", conn |-> k]]
          /\ db_manager' = [db_manager EXCEPT !.conns[k] = Connected,
                                              !.created = @ + 1]
    /\ UNCHANGED <<db, threads, tool, runs, grouping>>

\* the with-block executes a writing statement: sqlite3 opens a transaction
execute(c) ==
    /\ callers[c].pc = "block"
    /\ ~db_manager.conns[Conn(c)].in_transaction
    /\ db_manager' = SetConn(Conn(c), "in_transaction", TRUE)
    /\ UNCHANGED <<db, threads, tool, runs, callers, grouping>>

\* the with-block calls conn.commit()
commit(c) ==
    /\ callers[c].pc = "block"
    /\ db_manager.conns[Conn(c)].in_transaction
    /\ db_manager' = SetConn(Conn(c), "in_transaction", FALSE)
    /\ UNCHANGED <<db, threads, tool, runs, callers, grouping>>

\* the with-block raises an Exception: control enters the except clause
block_raises(c) ==
    /\ callers[c].pc = "block"
    /\ callers' = [callers EXCEPT ![c].pc = "except"]
    /\ db_manager' = SetConn(Conn(c), "failed", TRUE)
    /\ UNCHANGED <<db, threads, tool, runs, grouping>>

\* except Exception: conn.rollback(), log, raise
after_rollback(conn) ==
    [conn EXCEPT !.in_transaction = FALSE, !.failed = FALSE, !.rolled_back = TRUE]
rollback(c) ==
    /\ callers[c].pc = "except"
    /\ callers' = [callers EXCEPT ![c].pc = "finally"]
    /\ db_manager' = [db_manager EXCEPT !.conns[Conn(c)] = after_rollback(@)]
    /\ UNCHANGED <<db, threads, tool, runs, grouping>>

\* the with-block ends without raising
block_ends(c) ==
    /\ callers[c].pc = "block"
    /\ callers' = [callers EXCEPT ![c].pc = "finally"]
    /\ UNCHANGED <<db, threads, tool, runs, db_manager, grouping>>

\* finally: put_nowait(conn), and conn.close() when the queue is full
_return_connection_to_pool(c) ==
    /\ callers[c].pc = "finally"
    /\ callers' = [callers EXCEPT ![c] = OutsideBlock]
    /\ db_manager' =
          IF Len(db_manager.pool) < pool_size
          THEN [db_manager EXCEPT !.pool = Append(@, Conn(c))]
          ELSE SetConn(Conn(c), "state", "closed")
    /\ UNCHANGED <<db, threads, tool, runs, grouping>>

NextPool ==
    \/ \E c \in Callers : _get_connection_from_pool(c)
    \/ \E c \in Callers : pool_exhausted(c)
    \/ \E c \in Callers : execute(c)
    \/ \E c \in Callers : commit(c)
    \/ \E c \in Callers : block_raises(c)
    \/ \E c \in Callers : rollback(c)
    \/ \E c \in Callers : block_ends(c)
    \/ \E c \in Callers : _return_connection_to_pool(c)

SpecPool == Init /\ [][NextPool]_vars

-----------------------------------------------------------------------------
(* vad_filters.py: group_by_natural_breaks(sentences, break_points), one    *)
(* action for each pass through its loop.  Only membership in break_points  *)
(* is used, so the list is modelled as a set.                               *)

min_gap == 3                \* seconds, the default of the min_gap parameter
MinGroup == 3               \* sentences a group needs before it is closed

\* sentences of 2 seconds, 2 seconds apart
VadSentences(n) ==
    [i \in 1..n |-> Sentence("Hello.", Sec(4 * (i - 1)), Sec(4 * (i - 1) + 2), i)]
VadSentenceLists == {VadSentences(n) : n \in 0..MaxSentences}

\* a point inside the first sentence, which follows no sentence end, and one
\* point after each sentence: at its end, min_gap after it, or a second after it
BreakCandidates ==
    {Sec(1)} \cup {Sec(4 * (i - 1) + 2) + Sec(CASE i % 3 = 1 -> 0
                                              [] i % 3 = 2 -> min_gap
                                              [] OTHER -> 1) : i \in 1..MaxSentences}

has_break_after(sentence, break_points) ==
    \E bp \in break_points :
        bp >= sentence.end_time /\ bp <= sentence.end_time + Sec(min_gap)

any_group(current_group) == current_group # <<>>
full_group(current_group) == Len(current_group) >= MinGroup

Called(sentences, break_points) ==
    [pc |-> "called", sentences |-> sentences, break_points |-> break_points,
     at |-> 0, groups |-> <<>>, current_group |-> <<>>]

\* if not break_points: return [sentences]
no_break_points ==
    /\ grouping.pc = "called"
    /\ grouping.break_points = {}
    /\ grouping' = [grouping EXCEPT !.pc = "returned", !.groups = <<grouping.sentences>>]
    /\ UNCHANGED <<db, threads, tool, runs, db_manager, callers>>

\* one pass of for sentence in sentences
next_sentence ==
    /\ grouping.pc = "called"
    /\ grouping.break_points # {}
    /\ grouping.at < Len(grouping.sentences)
    /\ LET sentence == grouping.sentences[grouping.at + 1]
           current_group == Append(grouping.current_group, sentence)
       IN grouping' =
             IF has_break_after(sentence, grouping.break_points) /\ full_group(current_group)
             THEN [grouping EXCEPT !.at = @ + 1, !.groups = Append(@, current_group),
                                   !.current_group = <<>>]
             ELSE [grouping EXCEPT !.at = @ + 1, !.current_group = current_group]
    /\ UNCHANGED <<db, threads, tool, runs, db_manager, callers>>

\* after the loop: the last group is added, or joined to the one before it
last_group ==
    /\ grouping.pc = "called"
    /\ grouping.break_points # {}
    /\ grouping.at = Len(grouping.sentences)
    /\ LET current_group == grouping.current_group
           groups == grouping.groups
       IN grouping' =
             [grouping EXCEPT
                 !.pc = "returned",
                 !.groups =
                     IF current_group = <<>> THEN groups
                     ELSE IF full_group(current_group) THEN Append(groups, current_group)
                     ELSE IF groups # <<>>
                          THEN [groups EXCEPT ![Len(groups)] = @ \o current_group]
                          ELSE Append(groups, current_group)]
    /\ UNCHANGED <<db, threads, tool, runs, db_manager, callers>>

InitGroups ==
    /\ Workers
    /\ db_manager = InitialManager
    /\ callers = [c \in Callers |-> OutsideBlock]
    /\ grouping \in {Called(sentences, break_points) :
                        sentences \in VadSentenceLists,
                        break_points \in SUBSET BreakCandidates}

NextGroups ==
    \/ no_break_points
    \/ next_sentence
    \/ last_group

SpecGroups == InitGroups /\ [][NextGroups]_vars

-----------------------------------------------------------------------------
(* Properties of the structuring runs.  Under Spec one request runs at a    *)
(* time, so while a thread is at "complete" the database is exactly what    *)
(* its call of reorganize_chapters_scenes committed.                        *)

Reorganized(t) == threads[t].pc = "complete"

\* the rows of media m that store sentence s
StoredIn(d, m, s) ==
    {r \in SentenceRows(d, m) :
        /\ r.order = s.order /\ r.english = s.english
        /\ r.startTime = s.start_time /\ r.endTime = s.end_time}

\* the shape reorganize_chapters_scenes leaves for the thread's sentences under
\* the named template when no INSERT raises
ShapeUnder(t, template) ==
    Shape(reorganize_chapters_scenes(db, threads[t].media, threads[t].filepath,
                                     threads[t].sentences, template, 0).d,
          threads[t].media)

HasPartMarker(sentences) ==
    \E i \in 1..Len(sentences) :
        PartStart(sentences[i].english) # 0 \/ PartMention(sentences[i].english) # 0

\* chapter orders are exactly 1..C and the scene orders of every chapter 1..S_c
WellOrdered(d, m) ==
    /\ {c.order : c \in ChapterRows(d, m)} = 1..Cardinality(ChapterRows(d, m))
    /\ \A c \in ChapterRows(d, m) :
          LET scenes == {sc \in d.scene : sc.chapterId = c.id}
          IN {sc.order : sc \in scenes} = 1..Cardinality(scenes)

\* C1: after reorganize_chapters_scenes commits for a non-empty sentence list and
\* any of the seven template names, every input sentence is stored in exactly one
\* scene of the media: none is dropped and none is stored twice.
C1_EverySentenceInOneScene ==
    \A t \in Threads :
        ( /\ Reorganized(t)
          /\ ~threads[t].faulted
          /\ threads[t].sentences # <<>>
          /\ threads[t].template \in Templates )
        => \A i \in 1..Len(threads[t].sentences) :
              Cardinality(StoredIn(db, threads[t].media, threads[t].sentences[i])) = 1

\* C2: when a structuring run fails at some step (save_to_database raises, or
\* reorganize_chapters_scenes rolls back), the media's Chapter, Scene and Sentence
\* rows after the run are exactly the rows it had when the run started.
C2_FailedRunLeavesRows ==
    \A t \in Threads :
        ( /\ threads[t].pc \in {"complete", "done"}
          /\ threads[t].save_raised \/ threads[t].rolled_back
          /\ tool = NoTool )
        => Rows(db, threads[t].media) = threads[t].pre

\* C3: under any interleaving of process-whisper and upload-sentences requests,
\* no two running background threads work on the same media id.
C3_OneRunPerMedia ==
    \A t, u \in Threads :
        (t # u /\ Active(t) /\ Active(u)) => threads[t].media # threads[u].media

\* C4: every hierarchy persisted by reorganize_chapters_scenes, by
\* analyze_toeic_structure or by apply_directions_based_structure has chapter
\* orders exactly 1..C and, under each chapter, scene orders exactly 1..S_c.
C4_OrdersContiguous ==
    /\ \A t \in Threads :
          (Reorganized(t) /\ ~threads[t].rolled_back) => WellOrdered(db, threads[t].media)
    /\ tool.op \in {"analyze", "directions"} => WellOrdered(db, tool.media)

\* C5: when an INSERT raises while a template is applied inside
\* reorganize_chapters_scenes, the call's deletes and partial inserts are rolled
\* back: the media's rows are the rows it had before the call.
C5_RaisingInsertRollsBack ==
    \A t \in Threads :
        (Reorganized(t) /\ threads[t].faulted)
        => Rows(db, threads[t].media) = threads[t].before

\* C6: in a run where no INSERT raises, template 'toeic_lc' on a non-empty
\* sentence list without a 'Part N' marker persists a non-empty hierarchy with the
\* shape template 'general' persists for the same sentences, and no error leaves
\* reorganize_chapters_scenes.
C6_ToeicLcWithoutPartsIsGeneral ==
    \A t \in Threads :
        ( /\ Reorganized(t)
          /\ threads[t].template = "toeic_lc"
          /\ threads[t].sentences # <<>>
          /\ ~HasPartMarker(threads[t].sentences)
          /\ ~threads[t].faulted )
        => /\ Shape(db, threads[t].media) = ShapeUnder(t, "general")
           /\ ChapterRows(db, threads[t].media) # {}
           /\ ~threads[t].raised

C6_Witness ==
    \E t \in Threads :
        /\ Reorganized(t)
        /\ threads[t].template = "toeic_lc"
        /\ Len(threads[t].sentences) = MaxLen
        /\ ~HasPartMarker(threads[t].sentences)
        /\ ~threads[t].faulted
        /\ Cardinality(ChapterRows(db, threads[t].media)) >= 2
        /\ SentenceRows(db, threads[t].media) # {}

C8_UnknownIsGeneral ==
    \A t \in Threads :
        ( /\ Reorganized(t)
          /\ threads[t].template \notin Templates
          /\ ~threads[t].faulted )
        => Shape(db, threads[t].media) = ShapeUnder(t, "general")

\* C8, amended: a template name that is not one of the recognized names is
\* treated as 'auto': the call persists the hierarchy it persists with template
\* 'auto' for the same audio file and sentences.
C8_UnknownIsAuto ==
    \A t \in Threads :
        ( /\ Reorganized(t)
          /\ threads[t].template \notin Templates
          /\ ~threads[t].faulted )
        => Shape(db, threads[t].media) = ShapeUnder(t, "auto")

C8_Witness ==
    \E t \in Threads :
        /\ Reorganized(t)
        /\ threads[t].template \notin Templates
        /\ ~threads[t].faulted
        /\ threads[t].sentences # <<>>
        /\ Shape(db, threads[t].media) # ShapeUnder(t, "general")

\* the primary strategy of the thread's call failed: an INSERT raised inside the
\* template, or the silence-based strategy was given audio that cannot be decoded
PrimaryFailed(t) ==
    \/ threads[t].faulted
    \/ /\ threads[t].template \notin (Templates \ {"auto"})
       /\ ~threads[t].filepath.loadable

\* C9: when the primary strategy raises or cannot analyse its input, the
\* hierarchy finally persisted is the one template 'general' produces for the
\* same sentences, and no error leaves reorganize_chapters_scenes.
C9_FailureFallsBackToGeneral ==
    \A t \in Threads :
        (Reorganized(t) /\ PrimaryFailed(t))
        => /\ Shape(db, threads[t].media) = ShapeUnder(t, "general")
           /\ ~threads[t].raised

\* C10: for an empty sentence list every template persists exactly one chapter
\* holding exactly one scene, both over [0, duration], with no sentences, and
\* raises no error.
C10_EmptyListSingleChapter ==
    \A t \in Threads :
        (Reorganized(t) /\ threads[t].sentences = <<>> /\ ~threads[t].faulted)
        => /\ \E duration \in {threads[t].duration, Sec(DefaultDuration)} :
                Shape(db, threads[t].media) =
                    [chapters |-> 1, scenes |-> 1, sentences |-> 0,
                     tree |-> {<<1, 0, duration, {<<1, 0, duration, {}>>}>>}]
           /\ ~threads[t].raised

-----------------------------------------------------------------------------
(* Properties of the groupings *)

\* the chapters of media m that hold a row storing sentence s
ChaptersHolding(d, m, s) ==
    {c \in ChapterRows(d, m) :
        \E sc \in d.scene : sc.chapterId = c.id /\
            \E r \in StoredIn(d, m, s) : r.sceneId = sc.id}

HasPartStart(sentences) ==
    \E i \in 1..Len(sentences) : PartStart(sentences[i].english) # 0

\* C11: with template 'toeic_lc' and a transcript holding 'Part N' sentences,
\* every sentence lies in one chapter, and a sentence lies in another chapter than
\* the sentence before it exactly when it is a 'Part N' sentence.
C11_PartMarkersStartChapters ==
    \A t \in Threads :
        ( /\ Reorganized(t)
          /\ threads[t].template = "toeic_lc"
          /\ ~threads[t].faulted
          /\ HasPartStart(threads[t].sentences) )
        => LET s == threads[t].sentences
               held(i) == ChaptersHolding(db, threads[t].media, s[i])
           IN /\ \A i \in 1..Len(s) : Cardinality(held(i)) = 1
              /\ \A i \in 2..Len(s) :
                    (held(i) # held(i - 1)) <=> (PartStart(s[i].english) # 0)

\* C12: when no candidate grouping is produced -- an empty sentence list under
\* template 'manual', or a transcript in which find_toeic_part_boundaries finds no
\* boundary -- the rows the media had before the operation are still there.
C12_NoGroupingKeepsHierarchy ==
    /\ \A t \in Threads :
          ( /\ Reorganized(t)
            /\ threads[t].template = "manual"
            /\ threads[t].sentences = <<>>
            /\ ~threads[t].faulted )
          => Rows(db, threads[t].media) = threads[t].before
    /\ ( /\ tool.op = "directions"
         /\ find_toeic_part_boundaries(SentencesOfMedia(tool.before, tool.media)) = <<>> )
       => Rows(db, tool.media) = tool.before

\* C13: a run in which an INSERT raised inside reorganize_chapters_scenes ends
\* with the failure raised to the caller and the media not marked 'completed'.
C13_StorageErrorFailsRun ==
    \A t \in Threads :
        (threads[t].pc = "done" /\ threads[t].faulted)
        => /\ threads[t].raised
           /\ db.media[threads[t].media].status # "completed"

\* the sentence rows of scene sc
RowsOfScene(d, sc) == {r \in d.sentence : r.sceneId = sc.id}

\* startTime < endTime for every chapter and scene of media m
PositiveIntervals(d, m) ==
    \A x \in ChapterRows(d, m) \cup SceneRows(d, m) : x.startTime < x.endTime

\* every scene of media m spans exactly its own sentences
ScenesDerived(d, m) ==
    \A sc \in SceneRows(d, m) :
        /\ RowsOfScene(d, sc) # {}
        /\ \A r \in RowsOfScene(d, sc) : sc.startTime <= r.startTime /\ r.endTime <= sc.endTime
        /\ \E r \in RowsOfScene(d, sc) : r.startTime = sc.startTime
        /\ \E r \in RowsOfScene(d, sc) : r.endTime = sc.endTime

\* every chapter of media m encloses its scenes
ChaptersEnclose(d, m) ==
    \A c \in ChapterRows(d, m) : \A sc \in d.scene :
        sc.chapterId = c.id => (c.startTime <= sc.startTime /\ sc.endTime <= c.endTime)

\* C14: in the hierarchy a run persists for a non-empty sentence list, every
\* chapter and scene has startTime < endTime, every scene spans exactly the
\* minimum start and maximum end of its own sentences, and every chapter encloses
\* its scenes.
C14_BoundsDerived ==
    \A t \in Threads :
        (Reorganized(t) /\ ~threads[t].faulted /\ threads[t].sentences # <<>>)
        => /\ PositiveIntervals(db, threads[t].media)
           /\ ScenesDerived(db, threads[t].media)
           /\ ChaptersEnclose(db, threads[t].media)

\* the run of thread t groups its sentences by the break points of its audio file
GroupsByBreaks(t) ==
    /\ Reorganized(t)
    /\ threads[t].template \notin (Templates \ {"auto"})

\* C15: group_sentences_by_breaks puts a sentence in the group of an interval
\* [b_i, b_i+1) exactly when the sentence starts in that interval, so in no more
\* than one group.
C15_GroupedByStartTime ==
    \A t \in Threads :
        GroupsByBreaks(t)
        => LET s == threads[t].sentences
               break_points == detect_silence_breaks(threads[t].filepath)
               groups == group_sentences_by_breaks(s, break_points)
               InGroups(i) ==
                   {<<groups[g].start_time, groups[g].end_time>> :
                       g \in {g \in 1..Len(groups) :
                                 \E k \in 1..Len(groups[g].sentences) :
                                     groups[g].sentences[k] = s[i]}}
               Containing(i) ==
                   {<<break_points[b], break_points[b + 1]>> :
                       b \in {b \in 1..(Len(break_points) - 1) :
                                 /\ break_points[b] <= s[i].start_time
                                 /\ s[i].start_time < break_points[b + 1]}}
           IN \A i \in 1..Len(s) : InGroups(i) = Containing(i)

\* C16: when runs for different media are interleaved, every run ends as it ends
\* alone: the media holds the hierarchy its template builds for its sentences,
\* its status is 'completed', and no statement of the run was locked out.
C16_DifferentMediaIndependent ==
    \A t \in Threads :
        threads[t].pc = "done"
        => /\ Shape(db, threads[t].media) = ShapeUnder(t, threads[t].template)
           /\ db.media[threads[t].media].status = "completed"
           /\ ~threads[t].busy

\* the scene row and the chapter id under which sentence s of media m is stored
SceneOf(d, m, s) ==
    CHOOSE sc \in SceneRows(d, m) : \E r \in StoredIn(d, m, s) : r.sceneId = sc.id

ManualRun(t) ==
    /\ Reorganized(t)
    /\ threads[t].template = "manual"
    /\ ~threads[t].faulted

\* C17: under template 'manual', for consecutive sentences with
\* gap = next.start_time - previous.end_time, the next sentence is stored in another
\* chapter than the previous one iff gap >= 10 s, in another scene of the same
\* chapter iff 3 s <= gap < 10 s, and in the same scene otherwise.
C17_ManualGapThresholds ==
    \A t \in Threads :
        ManualRun(t)
        => \A i \in 1..(Len(threads[t].sentences) - 1) :
              LET m == threads[t].media
                  previous == threads[t].sentences[i]
                  next == threads[t].sentences[i + 1]
                  gap == next.start_time - previous.end_time
                  a == SceneOf(db, m, previous)
                  b == SceneOf(db, m, next)
              IN /\ Cardinality(StoredIn(db, m, previous)) = 1
                 /\ Cardinality(StoredIn(db, m, next)) = 1
                 /\ (a.chapterId # b.chapterId) <=> (gap >= Sec(MajorGap))
                 /\ (a.chapterId = b.chapterId /\ a.id # b.id)
                       <=> (Sec(MinorGap) <= gap /\ gap < Sec(MajorGap))
                 /\ (a.id = b.id) <=> (gap < Sec(MinorGap))

\* a manual run over four sentences with pauses of exactly 10 s and exactly 3 s:
\* the first pause opened a chapter, the second a scene inside it
C17_Witness ==
    \E t \in Threads :
        /\ ManualRun(t)
        /\ threads[t].sentences = MkSentences(<<0, 10, 3, 0>>, "Hello.")
        /\ Cardinality(ChapterRows(db, threads[t].media)) = 2
        /\ Cardinality(SceneRows(db, threads[t].media)) = 3
        /\ SceneOf(db, threads[t].media, threads[t].sentences[1]).chapterId
              # SceneOf(db, threads[t].media, threads[t].sentences[2]).chapterId

\* the groups the thread's call of apply_auto_template makes chapters of
AutoGroups(t) ==
    group_sentences_by_breaks(threads[t].sentences,
                              detect_silence_breaks(threads[t].filepath))

SilenceChapters(t) ==
    /\ GroupsByBreaks(t)
    /\ ~threads[t].faulted
    /\ AutoGroups(t) # <<>>

\* the `order` values of sentences k with from <= k <= to of a group
OrdersOf(group, from, to) ==
    {group.sentences[k].order : k \in from..Min(to, Len(group.sentences))}

segment_count(duration) ==
    IF duration > Sec(LongAudio) THEN 4 ELSE IF duration > Sec(MediumAudio) THEN 2 ELSE 1

\* the break points that cut [0, duration] into n equal segments
equal_segments(duration, n) == [i \in 1..(n + 1) |-> ((i - 1) * duration) \div n]

\* C19: when the audio file of a run cannot be loaded, or silence detection fails
\* on it, detect_silence_breaks returns the break points that cut the duration of
\* the audio into equal segments: 4 above 10 minutes, 2 above 5 minutes, else 1.
C19_FallbackEqualSegments ==
    \A t \in Threads :
        ( /\ GroupsByBreaks(t)
          /\ threads[t].filepath.length > 0
          /\ ~(threads[t].filepath.loadable /\ threads[t].filepath.detectable) )
        => detect_silence_breaks(threads[t].filepath)
              = equal_segments(threads[t].filepath.length,
                               segment_count(threads[t].filepath.length))

\* the sentences chapter c held when the tool was started, in `order`
HeldBefore(c) == SentencesOfChapter(tool.before, c.id)

\* the chapter opens with the announcement of the part its `order` names
OpensWithPart(c) ==
    /\ HeldBefore(c) # <<>>
    /\ PartStart(HeldBefore(c)[1].english) = c.order

\* the scenes the markers of a chapter's sentences delimit: from the 'Part N'
\* sentence to the sentence before the first item marker, then from each item
\* marker to the sentence before the next one, the last to the end of the chapter
MarkerScenes(sentences, part_num) ==
    LET items == SelectSeq([i \in 1..Len(sentences) |-> i],
                           LAMBDA i : i > 1 /\ IsItem(part_num, sentences[i].english))
        cuts == <<1>> \o items
    IN [k \in 1..Len(cuts) |->
          {sentences[i].order :
              i \in cuts[k]..(IF k < Len(cuts) THEN cuts[k + 1] - 1 ELSE Len(sentences))}]

\* C20: after toeic_smart_template.py has run, a chapter that opened with its
\* 'Part N' sentence has one Directions scene from that sentence up to the first item
\* marker and one scene from each item marker up to the next; the scenes are
\* disjoint and hold every sentence the chapter held.
C20_SmartScenesPartition ==
    tool.op = "smart"
    => \A c \in ChapterRows(db, tool.media) :
          OpensWithPart(c)
          => LET scenes == {sc \in db.scene : sc.chapterId = c.id}
                 expected == MarkerScenes(HeldBefore(c), c.order)
             IN /\ {<<sc.order, {r.order : r \in RowsOfScene(db, sc)}>> : sc \in scenes}
                      = {<<k, expected[k]>> : k \in 1..Len(expected)}
                /\ Cardinality({r \in db.sentence : r.sceneId \in {sc.id : sc \in scenes}})
                      = Len(HeldBefore(c))

\* end_time <= start_time for some sentence, or a transcript that ends at 0
Malformed(sentences) ==
    \/ \E i \in 1..Len(sentences) : sentences[i].end_time <= sentences[i].start_time
    \/ sentences # <<>> /\ total_duration(sentences) = 0

\* C21: a run for a sentence list that holds a sentence with end_time <= start_time,
\* or whose total duration is 0, is rejected before any template runs: the media's
\* rows stay the rows it had when the request came in, and the run ends with the
\* status 'error'.
C21_MalformedInputRejected ==
    \A t \in Threads :
        (threads[t].pc \notin {"idle", "save"} /\ Malformed(threads[t].sentences))
        => /\ Rows(db, threads[t].media) = threads[t].pre
           /\ threads[t].pc = "done" => db.media[threads[t].media].status = "error"

C23_WhisperRunEndsSettled ==
    \A t \in Threads :
        (threads[t].pc = "done" /\ threads[t].kind = "whisper")
        => /\ db.media[threads[t].media].status \in {"completed", "error"}
           /\ (threads[t].save_raised \/ threads[t].faulted)
                 => db.media[threads[t].media].status = "error"

\* the chapter rows of media m tile [0, total]: the first starts at 0, each starts
\* where the previous one ends, and the last ends at total
Tiles(d, m, total) ==
    LET chapters == ChaptersOf(d, m)
    IN /\ chapters # <<>>
       /\ chapters[1].startTime = 0
       /\ \A k \in 2..Len(chapters) : chapters[k].startTime = chapters[k - 1].endTime
       /\ Last(chapters).endTime = total

\* C24: after a run with template 'conversation' or 'audiobook' on a non-empty
\* sentence list, the chapter intervals tile [0, total_duration], and so every
\* sentence starts inside some chapter interval.
C24_ChaptersTileDuration ==
    \A t \in Threads :
        ( /\ Reorganized(t)
          /\ threads[t].template \in {"conversation", "audiobook"}
          /\ threads[t].sentences # <<>>
          /\ ~threads[t].faulted )
        => /\ Tiles(db, threads[t].media, total_duration(threads[t].sentences))
           /\ \A i \in 1..Len(threads[t].sentences) :
                 \E c \in ChapterRows(db, threads[t].media) :
                    /\ c.startTime <= threads[t].sentences[i].start_time
                    /\ threads[t].sentences[i].start_time <= c.endTime

\* the hierarchy the smart template leaves when its connection sees the temporary
\* chapter, scene and sentences of the thread's call and is free to write
SmartOnTemporary(t) ==
    LET m == threads[t].media
        temp == ExecuteAll(Cursor(DeleteHierarchy(db, m)), m,
                           SingleChapter("Temp", threads[t].sentences), 0).x.d
    IN Shape(apply_toeic_smart_template(temp, m, FALSE).d, m)

\* C25: in a run with template 'toeic_lc' the connection of
\* apply_toeic_smart_template sees the caller's deletes and temporary rows and
\* writes without being blocked: the run persists the temporary chapter as the
\* smart template restructures it.
C25_SmartTemplateSeesTemporaryRows ==
    \A t \in Threads :
        ( /\ Reorganized(t)
          /\ threads[t].template = "toeic_lc"
          /\ threads[t].sentences # <<>>
          /\ ~threads[t].faulted )
        => Shape(db, threads[t].media) = SmartOnTemporary(t)

\* C26: a process-whisper request without force_restart, or an upload-sentences
\* request, that is handled while the media's status is 'processing' starts no
\* background thread and leaves the status and the rows as they were.
C26_ProcessingRejects ==
    [][\A m \in RunMedia :
          (runs' # runs /\ db.media[m].status = "processing")
          => (threads' = threads /\ db' = db)]_vars

\* a second request was handled while the first request's thread was transcribing
\* and the status was 'processing': it started no thread
C26_Witness ==
    /\ runs = 2
    /\ threads[1].pc = "transcribe" /\ ~threads[1].repeat
    /\ \A t \in Threads \ {1} : threads[t].pc = "idle"
    /\ db.media[threads[1].media].status = "processing"

RatioTemplates == {"general", "toeic_rc", "conversation", "audiobook"}

\* a run with one of the ratio and fixed-duration templates on a non-empty list
\* has committed its hierarchy
RatioRun(t) ==
    /\ Reorganized(t)
    /\ threads[t].template \in RatioTemplates
    /\ threads[t].sentences # <<>>
    /\ ~threads[t].rolled_back

ScenesOfChapter(d, c) == {sc \in d.scene : sc.chapterId = c.id}

\* C27: for a non-empty sentence list every Chapter persisted by general,
\* toeic_rc, conversation or audiobook contains at least one Scene and every
\* persisted Scene at least one sentence.
C27_ChaptersAndScenesNonEmpty ==
    \A t \in Threads :
        RatioRun(t)
        => \A c \in ChapterRows(db, threads[t].media) :
              /\ ScenesOfChapter(db, c) # {}
              /\ \A sc \in ScenesOfChapter(db, c) : RowsOfScene(db, sc) # {}

\* the sentences the media held when the tool was started, in `order`
HeldByMedia == SentencesOfMedia(tool.before, tool.media)

\* C28: the four index ranges of detect_toeic_parts start at 0, each begins where
\* the previous one ends, none ends before it begins and the last ends at N, so
\* analyze_toeic_structure stores every sentence in exactly one part.
C28_PartsPartitionSentences ==
    (tool.op = "analyze" /\ HeldByMedia # <<>>)
    => LET parts == detect_toeic_parts(HeldByMedia)
       IN /\ parts[1][1] = 0
          /\ \A k \in 1..3 : parts[k][2] = parts[k + 1][1]
          /\ \A k \in 1..4 : parts[k][1] <= parts[k][2]
          /\ parts[4][2] = Len(HeldByMedia)
          /\ \A i \in 1..Len(HeldByMedia) :
                Cardinality(StoredIn(db, tool.media, HeldByMedia[i])) = 1

-----------------------------------------------------------------------------
\* C29: under any interleaving of callers of get_connection, no connection
\* is held by two callers at once or held while it is in the queue, the queue
\* never holds more than pool_size connections, every connection that was
\* opened is held by a caller inside its with-block, in the queue, or closed,
\* and no connection leaves a with-block that raised without a rollback.
Holders(k) == {c \in Callers : callers[c].conn = k}
InQueue(k) == \E i \in 1..Len(db_manager.pool) : db_manager.pool[i] = k
-----------------------------------------------------------------------------
\* C30: the groups group_by_natural_breaks returns, concatenated in order,
\* are the sentence list it was given, and when it was given at least 3
\* sentences every group has at least 3.
C30_GroupsPartitionSentences ==
    grouping.pc = "returned"
    => /\ Flatten(grouping.groups) = grouping.sentences
       /\ Len(grouping.sentences) >= 3
          => \A g \in 1..Len(grouping.groups) : Len(grouping.groups[g]) >= 3

\* a group closed at a break after its third sentence, and a second group
\* that took in the sentence left over after its own third
C30_Witness ==
    /\ grouping.pc = "returned"
    /\ Len(grouping.groups) = 2
    /\ Len(grouping.groups[1]) = 3
    /\ Len(grouping.groups[2]) = 4

====
